---- MODULE Spec2Model ----
(***************************************************************************)
(* FlipArt: the workflow orchestration of src/App.tsx as a state machine.  *)
(*                                                                         *)
(* The React component's state hooks are the variables.  Every event       *)
(* handler runs to its first await as one action; the continuation that    *)
(* runs when the awaited promise settles is another action.  A pending     *)
(* call record holds what the handler's closure captured at the moment it  *)
(* was invoked: state read after the await is the captured value, not the  *)
(* current one, while functional updaters (prev => ...) act on the         *)
(* current value.                                                          *)
(*                                                                         *)
(* Optional values (T | null | undefined) are sequences of length <= 1:    *)
(* <<>> is null/undefined and <<v>> is v.  A URL string is the sequence of *)
(* its comma-separated segments, so that split(',') is the identity on the *)
(* representation and split(',')[1] is the second segment or undefined.    *)
(***************************************************************************)
EXTENDS Integers, Sequences, FiniteSets, TLC

VARIABLES
    mounted,            \* the mount effects (lines 87-100) have run and the tree is up
    prompt,             \* line 56
    isGenerating,       \* line 57
    settings,           \* line 58
    history,            \* line 59
    error,              \* line 60
    user,               \* line 63
    showAuthModal,      \* line 64
    chatInput,          \* line 69
    attachedImage,      \* line 70
    chatMessages,       \* line 71
    isChatting,         \* line 74
    audioFile,          \* line 78
    isAudioProcessing,  \* line 79
    audioResult,        \* line 80
    storage,            \* localStorage: [history |-> ..., user |-> ...]
    genCalls,           \* generateImage promises not yet settled
    chatCalls,          \* generateContent promises of handleSendMessage
    audioCalls,         \* FileReader / generateContent promises of handleAudioEnhance
    uncaught,           \* where errors left the component's code uncaught
    accepted,           \* history variable: how many workflow invocations were accepted
    completed           \* history variable: Artifacts in call-completion order

vars == << mounted, prompt, isGenerating, settings, history, error, user,
           showAuthModal, chatInput, attachedImage, chatMessages, isChatting,
           audioFile, isAudioProcessing, audioResult, storage,
           genCalls, chatCalls, audioCalls, uncaught, accepted, completed >>

genVars   == << prompt, isGenerating, settings, history, genCalls, completed >>
chatVars  == << chatInput, attachedImage, chatMessages, isChatting, chatCalls >>
audioVars == << audioFile, isAudioProcessing, audioResult, audioCalls >>
authVars  == << user, showAuthModal >>

----------------------------------------------------------------------------
(* Bounds of the model. *)

MaxOps == 2     \* workflow invocations accepted in one session

----------------------------------------------------------------------------
(* Values. *)

Null == << >>
Some(v) == << v >>
Undefined == "undefined"

ASPECT_RATIOS == << "1:1", "4:3", "3:4", "16:9", "9:16" >>

\* The aspect-ratio buttons the model presses.
Ratios == { ASPECT_RATIOS[1], ASPECT_RATIOS[4] }

\* Texts the user types; Trim is String.prototype.trim on them.
Prompts    == { "", "  ", "a red fox" }
ChatInputs == { "", "  ", " hi " }

Trim(s) ==
    CASE s = "  "   -> ""
      [] s = " hi " -> "hi"
      [] OTHER      -> s

\* What Date.now() can return when it is read.
ClockReadings == { 1, 2 }

\* Binary-image references: a data URL, and a plain resource locator.
DataUrl  == << "data:image/png;base64", "iVBORw0KGgo" >>
PlainUrl == << "https://cdn.example/img.png" >>

\* What generateImage resolves with.
ImageUrls == { DataUrl }

\* err.message of a rejected gateway call; "" stands for a missing message.
ErrorMessages == { "", "quota exceeded" }

\* response.text of a resolved generateContent call.
ResponseTexts == { "", "Looks great." }

GREETING        == "Hello! I am your FlipArt AI Assistant. I can help you craft better prompts or analyze your generated art. How can I assist you today?"
LOGOUT_GREETING == "Hello! I am your FlipArt Assistant. How can I help you today?"
GENERATE_FALLBACK == "Failed to generate image."
CHAT_EMPTY_FALLBACK == "I'm sorry, I couldn't process that request."
CHAT_ERROR_TEXT == "I encountered an error analyzing your request. Please try again."
ANALYZE_DEFAULT == "Analyze this image."
ATTACHMENT_DEFAULT == "What do you think of this generation?"
AUDIO_PLACEHOLDER == "Processing complete."

\* The files the user can pick in the audio input.
AudioFiles == { [name |-> "a.wav", type |-> "audio/wav"] }

\* What the sign-in form holds when it is submitted (authMode, authData): the
\* login form has no name field.
AuthModes == { "login" }
AuthInputs == { [name |-> "", email |-> "ann@example.com"] }

\* email.split('@')[0]
LocalPart(email) ==
    CASE email = "ann@example.com" -> "ann"
      [] OTHER -> email

\* JSON.stringify / JSON.parse on the values the program stores: a stored
\* string is either the text of a value or text that does not parse.
Stringify(v) == [kind |-> "json", value |-> v]
Parses(s)    == s.kind = "json"
Parse(s)     == s.value

\* Artifacts of an earlier session.
StoredData ==
    [id |-> "0", url |-> DataUrl, prompt |-> "an old owl", timestamp |-> 0,
     aspectRatio |-> "4:3"]
StoredPlain ==
    [id |-> "-1", url |-> PlainUrl, prompt |-> "a tall ship", timestamp |-> -1,
     aspectRatio |-> "9:16"]

\* What localStorage can hold when the component is constructed.
StoredProfile == [name |-> "ann", email |-> "ann@example.com"]

StoredHistories ==
    { Null, Some(Stringify(<< >>)), Some([kind |-> "garbage", value |-> << >>]) }
StoredUsers == { Null, Some(Stringify(StoredProfile)) }

\* Stored text that parses, to a list whose element is not an Artifact, and
\* stored text that does not parse.
NotArtifacts == << [note |-> "not an artifact"] >>
Garbage == [kind |-> "garbage", value |-> << >>]

----------------------------------------------------------------------------
(* Construction: the useState initial values, over what localStorage holds. *)

Init ==
    /\ mounted = FALSE
    /\ prompt = ""
    /\ isGenerating = FALSE
    /\ settings = [aspectRatio |-> "1:1"]
    /\ history = << >>
    /\ error = Null
    /\ user = Null
    /\ showAuthModal = FALSE
    /\ chatInput = ""
    /\ attachedImage = Null
    /\ chatMessages = << [role |-> "model", text |-> GREETING, image |-> Null] >>
    /\ isChatting = FALSE
    /\ audioFile = Null
    /\ isAudioProcessing = FALSE
    /\ audioResult = Null
    /\ \E h \in StoredHistories, u \in StoredUsers :
           storage = [history |-> h, user |-> u]
    /\ genCalls = << >>
    /\ chatCalls = << >>
    /\ audioCalls = << >>
    /\ uncaught = { }
    /\ accepted = 0
    /\ completed = << >>

\* Construction over a gallery an earlier session stored.
ChatInit ==
    /\ mounted = FALSE
    /\ prompt = ""
    /\ isGenerating = FALSE
    /\ settings = [aspectRatio |-> "1:1"]
    /\ history = << >>
    /\ error = Null
    /\ user = Null
    /\ showAuthModal = FALSE
    /\ chatInput = ""
    /\ attachedImage = Null
    /\ chatMessages = << [role |-> "model", text |-> GREETING, image |-> Null] >>
    /\ isChatting = FALSE
    /\ audioFile = Null
    /\ isAudioProcessing = FALSE
    /\ audioResult = Null
    /\ \E u \in StoredUsers :
           storage = [history |-> Some(Stringify(<< StoredData, StoredPlain >>)),
                      user |-> u]
    /\ genCalls = << >>
    /\ chatCalls = << >>
    /\ audioCalls = << >>
    /\ uncaught = { }
    /\ accepted = 0
    /\ completed = << >>

\* Construction over anything the two keys of localStorage can hold.
StoreInit ==
    /\ mounted = FALSE
    /\ prompt = ""
    /\ isGenerating = FALSE
    /\ settings = [aspectRatio |-> "1:1"]
    /\ history = << >>
    /\ error = Null
    /\ user = Null
    /\ showAuthModal = FALSE
    /\ chatInput = ""
    /\ attachedImage = Null
    /\ chatMessages = << [role |-> "model", text |-> GREETING, image |-> Null] >>
    /\ isChatting = FALSE
    /\ audioFile = Null
    /\ isAudioProcessing = FALSE
    /\ audioResult = Null
    /\ \E h \in StoredHistories \cup { Some(Stringify(NotArtifacts)) },
          u \in StoredUsers \cup { Some(Garbage) } :
           storage = [history |-> h, user |-> u]
    /\ genCalls = << >>
    /\ chatCalls = << >>
    /\ audioCalls = << >>
    /\ uncaught = { }
    /\ accepted = 0
    /\ completed = << >>

----------------------------------------------------------------------------
(* PersistentStore: the load effect and the save effect. *)

\* Lines 88-91: the list the load effect installs.
LoadHistory(stored) ==
    IF stored # Null /\ Parses(stored[1]) THEN Parse(stored[1]) ELSE << >>

\* Lines 92-95: the profile the load effect installs.
LoadUser(stored) ==
    IF stored # Null /\ Parses(stored[1]) THEN Some(Parse(stored[1])) ELSE Null

\* Mutant of SaveHistory: a value already stored is not overwritten.
SaveHistory_KeepStored(store, h) ==
    IF store.history = Null THEN [store EXCEPT !.history = Some(Stringify(h))]
    ELSE store

\* Lines 98-100: the save effect, run after every render that changed history.
SaveHistory(store, h) == [store EXCEPT !.history = Some(Stringify(h))]

\* The mount: the load effect queues setHistory / setUser, the save effect
\* writes the initial (empty) list, and the render the load effect caused
\* runs the save effect again with the loaded list.
Mount ==
    /\ ~mounted
    /\ uncaught = { }
    /\ mounted' = TRUE
    /\ history' = LoadHistory(storage.history)
    /\ user' = LoadUser(storage.user)
    /\ storage' = SaveHistory(SaveHistory(storage, << >>), history')
    /\ UNCHANGED << prompt, isGenerating, settings, error, showAuthModal,
                    chatVars, audioVars, genCalls, uncaught, accepted,
                    completed >>

\* localStorage.setItem throws (the quota is exceeded) in the save effect of
\* the mount (line 99): nothing catches it and React takes the tree down with
\* the state of the first render.
MountQuota ==
    /\ ~mounted
    /\ uncaught = { }
    /\ uncaught' = uncaught \cup { "save effect" }
    /\ UNCHANGED << mounted, prompt, isGenerating, settings, history, error,
                    authVars, chatVars, audioVars, storage, genCalls,
                    accepted, completed >>

\* The page is loaded again: the component is constructed anew (lines 55-81)
\* over what localStorage holds, and the calls of the old page are gone.
Reload ==
    /\ mounted' = FALSE
    /\ prompt' = ""
    /\ isGenerating' = FALSE
    /\ settings' = [aspectRatio |-> "1:1"]
    /\ history' = << >>
    /\ error' = Null
    /\ user' = Null
    /\ showAuthModal' = FALSE
    /\ chatInput' = ""
    /\ attachedImage' = Null
    /\ chatMessages' = << [role |-> "model", text |-> GREETING, image |-> Null] >>
    /\ isChatting' = FALSE
    /\ audioFile' = Null
    /\ isAudioProcessing' = FALSE
    /\ audioResult' = Null
    /\ genCalls' = << >>
    /\ chatCalls' = << >>
    /\ audioCalls' = << >>
    /\ uncaught' = { }
    /\ UNCHANGED << storage, accepted, completed >>

----------------------------------------------------------------------------
(* GenerationWorkflow. *)

\* Line 367: typing in the prompt input, which is disabled while generating.
SetPrompt ==
    /\ mounted
    /\ ~isGenerating
    /\ \E p \in Prompts : prompt' = p
    /\ UNCHANGED << mounted, uncaught, isGenerating, settings, history, genCalls,
                    completed, error, authVars, chatVars, audioVars, storage,
                    accepted >>

\* Line 389: an aspect-ratio button.
SetAspectRatio ==
    /\ mounted
    /\ \E r \in Ratios : settings' = [aspectRatio |-> r]
    /\ UNCHANGED << mounted, uncaught, prompt, isGenerating, history, genCalls,
                    completed, error, authVars, chatVars, audioVars, storage,
                    accepted >>

\* Mutants of GenerateIgnored: the busy flag is not consulted; the prompt is
\* not trimmed.
GenerateIgnored_NoBusy(p, busy) == Trim(p) = ""
GenerateIgnored_NoTrim(p, busy) == p = "" \/ busy

\* Line 104: the condition under which handleGenerate returns at once.
GenerateIgnored(p, busy) == Trim(p) = "" \/ busy

\* Mutant of NewImage: the aspect ratio is the default, not the captured one.
NewImage_DefaultRatio(call, url, clock) ==
    [id |-> ToString(clock), url |-> url, prompt |-> call.prompt,
     timestamp |-> clock, aspectRatio |-> "1:1"]

\* Lines 111-117: the Artifact built when generateImage resolves.  call is
\* the closure of the invocation; both Date.now() reads give the same reading.
NewImage(call, url, clock) ==
    [id |-> ToString(clock), url |-> url, prompt |-> call.prompt,
     timestamp |-> clock, aspectRatio |-> call.aspectRatio]

\* Mutant of Prepend: the new Artifact goes to the back.
Prepend_AtBack(img, prev) == prev \o << img >>

\* Line 118: the updater prev => [newImage, ...prev].
Prepend(img, prev) == << img >> \o prev

\* Mutant of GenerateError: no fallback for a missing message.
GenerateError_NoFallback(msg) == msg

\* Line 121: err.message || "Failed to generate image."
GenerateError(msg) == IF msg # "" THEN msg ELSE GENERATE_FALLBACK

RemoveAt(s, i) == SubSeq(s, 1, i - 1) \o SubSeq(s, i + 1, Len(s))

\* Mutant of HandleGenerate: the session check of line 105 is missing.
HandleGenerate_NoSessionCheck ==
    /\ mounted
    /\ IF GenerateIgnored(prompt, isGenerating)
       THEN UNCHANGED << genVars, error, authVars, accepted >>
       ELSE /\ accepted < MaxOps
            /\ accepted' = accepted + 1
            /\ isGenerating' = TRUE
            /\ error' = Null
            /\ genCalls' = Append(genCalls,
                   [prompt |-> prompt, aspectRatio |-> settings.aspectRatio])
            /\ UNCHANGED << prompt, settings, history, completed, authVars >>
    /\ UNCHANGED << mounted, uncaught, chatVars, audioVars, storage >>

\* Lines 102-110: handleGenerate up to its await.
HandleGenerate ==
    /\ mounted
    /\ IF GenerateIgnored(prompt, isGenerating)
       THEN UNCHANGED << genVars, error, authVars, accepted >>
       ELSE IF user = Null
       THEN /\ showAuthModal' = TRUE
            /\ UNCHANGED << genVars, error, user, accepted >>
       ELSE /\ accepted < MaxOps
            /\ accepted' = accepted + 1
            /\ isGenerating' = TRUE
            /\ error' = Null
            /\ genCalls' = Append(genCalls,
                   [prompt |-> prompt, aspectRatio |-> settings.aspectRatio])
            /\ UNCHANGED << prompt, settings, history, completed, authVars >>
    /\ UNCHANGED << mounted, uncaught, chatVars, audioVars, storage >>

\* Mutant of GenerateResolved: the result of a call is dropped when nobody
\* is signed in any more.
GenerateResolved_NeedsSession ==
    /\ \E i \in 1..Len(genCalls), url \in ImageUrls, clock \in ClockReadings :
         LET newImage == NewImage(genCalls[i], url, clock) IN
           /\ history' = IF user # Null THEN Prepend(newImage, history) ELSE history
           /\ completed' = IF user # Null THEN Append(completed, newImage)
                           ELSE completed
           /\ genCalls' = RemoveAt(genCalls, i)
    /\ prompt' = ""
    /\ isGenerating' = FALSE
    /\ storage' = SaveHistory(storage, history')
    /\ UNCHANGED << mounted, uncaught, settings, error, authVars, chatVars,
                    audioVars, accepted >>

\* Lines 110-119 and 122-124: generateImage resolved; the render that follows
\* runs the save effect (lines 98-100).
GenerateResolved ==
    /\ \E i \in 1..Len(genCalls), url \in ImageUrls, clock \in ClockReadings :
         LET newImage == NewImage(genCalls[i], url, clock) IN
           /\ history' = Prepend(newImage, history)
           /\ completed' = Append(completed, newImage)
           /\ genCalls' = RemoveAt(genCalls, i)
    /\ prompt' = ""
    /\ isGenerating' = FALSE
    /\ storage' = SaveHistory(storage, history')
    /\ UNCHANGED << mounted, uncaught, settings, error, authVars, chatVars, audioVars,
                    accepted >>

\* Lines 110-119, 122-124 and 99: generateImage resolved and setItem throws in
\* the save effect of the render that follows; the tree goes down.
GenerateResolvedQuota ==
    /\ \E i \in 1..Len(genCalls), url \in ImageUrls, clock \in ClockReadings :
         LET newImage == NewImage(genCalls[i], url, clock) IN
           /\ history' = Prepend(newImage, history)
           /\ completed' = Append(completed, newImage)
           /\ genCalls' = RemoveAt(genCalls, i)
    /\ prompt' = ""
    /\ isGenerating' = FALSE
    /\ mounted
    /\ mounted' = FALSE
    /\ uncaught' = uncaught \cup { "save effect" }
    /\ UNCHANGED << settings, error, authVars, chatVars, audioVars, storage,
                    accepted >>

\* Mutant of GenerateRejected: the finally block of lines 122-124 is missing.
GenerateRejected_NoFinally ==
    /\ \E i \in 1..Len(genCalls), msg \in ErrorMessages :
           /\ error' = Some(GenerateError(msg))
           /\ genCalls' = RemoveAt(genCalls, i)
    /\ UNCHANGED << mounted, uncaught, prompt, isGenerating, settings, history,
                    completed, authVars, chatVars, audioVars, storage,
                    accepted >>

\* Lines 120-124: generateImage rejected.
GenerateRejected ==
    /\ \E i \in 1..Len(genCalls), msg \in ErrorMessages :
           /\ error' = Some(GenerateError(msg))
           /\ genCalls' = RemoveAt(genCalls, i)
    /\ isGenerating' = FALSE
    /\ UNCHANGED << mounted, uncaught, prompt, settings, history, completed, authVars,
                    chatVars, audioVars, storage, accepted >>

----------------------------------------------------------------------------
(* ContextBuilder: the request handleSendMessage builds (lines 142-156). *)

Text(s) == [tag |-> "text", text |-> s, data |-> "", mimeType |-> ""]
InlineData(d, m) == [tag |-> "inlineData", text |-> "", data |-> d, mimeType |-> m]

\* url.split(',')[1]: the payload of a data URL, undefined for a plain locator.
SplitPayload(url) == IF Len(url) >= 2 THEN url[2] ELSE Undefined

\* Lines 143-147: the entry of one message of the log.
MessageEntry(msg) ==
    [role |-> msg.role,
     parts |-> IF msg.image # Null
               THEN << InlineData(SplitPayload(msg.image[1]), "image/png"),
                       Text(IF msg.text # "" THEN msg.text ELSE ANALYZE_DEFAULT) >>
               ELSE << Text(msg.text) >>]

\* Lines 150-154: the parts of the turn being submitted.
CurrentParts(userText, attachment) ==
    (IF attachment # Null
     THEN << InlineData(SplitPayload(attachment[1].url), "image/png") >>
     ELSE << >>)
    \o << Text(IF userText # "" THEN userText
               ELSE IF attachment # Null THEN ATTACHMENT_DEFAULT ELSE "") >>

\* Mutant of BuildContents: the log is read after the user entry of line 137
\* was appended to it.
BuildContents_AfterAppend(log, userText, attachment) ==
    LET appended == Append(log,
            [role |-> "user", text |-> userText,
             image |-> IF attachment # Null THEN Some(attachment[1].url)
                       ELSE Null])
    IN  [i \in 1..Len(appended) |-> MessageEntry(appended[i])]
        \o << [role |-> "user", parts |-> CurrentParts(userText, attachment)] >>

\* Lines 142-156: contents, from the log the handler's closure holds.
BuildContents(log, userText, attachment) ==
    [i \in 1..Len(log) |-> MessageEntry(log[i])]
    \o << [role |-> "user", parts |-> CurrentParts(userText, attachment)] >>

----------------------------------------------------------------------------
(* ConversationWorkflow. *)

\* Line 639: typing in the chat input, which is disabled while chatting.
SetChatInput ==
    /\ mounted
    /\ ~isChatting
    /\ \E t \in ChatInputs : chatInput' = t
    /\ UNCHANGED << mounted, uncaught, genVars, error, authVars, attachedImage,
                    chatMessages, isChatting, chatCalls, audioVars, storage,
                    accepted >>

\* Lines 429 and 563: the attach button of a gallery entry.
AttachImage ==
    /\ mounted
    /\ \E i \in 1..Len(history) : attachedImage' = Some(history[i])
    /\ UNCHANGED << mounted, uncaught, genVars, error, authVars, chatInput,
                    chatMessages, isChatting, chatCalls, audioVars, storage,
                    accepted >>

\* Line 625: the remove button of the staged attachment.
RemoveAttachment ==
    /\ mounted
    /\ attachedImage # Null
    /\ attachedImage' = Null
    /\ UNCHANGED << mounted, uncaught, genVars, error, authVars, chatInput,
                    chatMessages, isChatting, chatCalls, audioVars, storage,
                    accepted >>

\* Mutant of ClearHistory: the log is reseeded with the greeting.
ClearHistory_Greeting ==
    /\ mounted
    /\ chatMessages' = << [role |-> "model", text |-> GREETING, image |-> Null] >>
    /\ UNCHANGED << mounted, uncaught, genVars, error, authVars, chatInput,
                    attachedImage, isChatting, chatCalls, audioVars, storage,
                    accepted >>

\* Line 584: the Clear History button.
ClearHistory ==
    /\ mounted
    /\ chatMessages' = << >>
    /\ UNCHANGED << mounted, uncaught, genVars, error, authVars, chatInput,
                    attachedImage, isChatting, chatCalls, audioVars, storage,
                    accepted >>

\* Mutant of SendIgnored: the busy flag is not consulted.
SendIgnored_NoBusy(input, attachment, busy) ==
    Trim(input) = "" /\ attachment = Null

\* Line 129: the condition under which handleSendMessage returns at once.
SendIgnored(input, attachment, busy) ==
    (Trim(input) = "" /\ attachment = Null) \/ busy

\* Mutant of UserMessage: the entry does not carry the attachment.
UserMessage_NoImage(userText, attachment) ==
    [role |-> "user", text |-> userText, image |-> Null]

\* Line 137: the user entry appended before the call.
UserMessage(userText, attachment) ==
    [role |-> "user", text |-> userText,
     image |-> IF attachment # Null THEN Some(attachment[1].url) ELSE Null]

\* Lines 169-170 and 173: the assistant entries.
AssistantMessage(text) ==
    [role |-> "model",
     text |-> IF text # "" THEN text ELSE CHAT_EMPTY_FALLBACK,
     image |-> Null]
ErrorMessage == [role |-> "model", text |-> CHAT_ERROR_TEXT, image |-> Null]

\* Mutant of HandleSendMessage: lines 134-135 come before the session check
\* of line 130.
HandleSendMessage_ClearsFirst ==
    /\ mounted
    /\ IF SendIgnored(chatInput, attachedImage, isChatting)
       THEN UNCHANGED << chatVars, authVars, accepted >>
       ELSE IF user = Null
       THEN /\ showAuthModal' = TRUE
            /\ chatInput' = ""
            /\ attachedImage' = Null
            /\ UNCHANGED << chatMessages, isChatting, chatCalls, user, accepted >>
       ELSE LET userText == Trim(chatInput)
                currentAttachment == attachedImage
            IN  /\ accepted < MaxOps
                /\ accepted' = accepted + 1
                /\ chatInput' = ""
                /\ attachedImage' = Null
                /\ chatMessages' =
                       Append(chatMessages, UserMessage(userText, currentAttachment))
                /\ isChatting' = TRUE
                /\ chatCalls' = Append(chatCalls,
                       [contents |-> BuildContents(chatMessages, userText,
                                                   currentAttachment),
                        log |-> chatMessages,
                        userText |-> userText,
                        attachment |-> currentAttachment,
                        userName |-> user[1].name])
                /\ UNCHANGED authVars
    /\ UNCHANGED << mounted, uncaught, genVars, error, audioVars, storage >>

\* Lines 127-158: handleSendMessage up to its await.
HandleSendMessage ==
    /\ mounted
    /\ IF SendIgnored(chatInput, attachedImage, isChatting)
       THEN UNCHANGED << chatVars, authVars, accepted >>
       ELSE IF user = Null
       THEN /\ showAuthModal' = TRUE
            /\ UNCHANGED << chatVars, user, accepted >>
       ELSE LET userText == Trim(chatInput)
                currentAttachment == attachedImage
            IN  /\ accepted < MaxOps
                /\ accepted' = accepted + 1
                /\ chatInput' = ""
                /\ attachedImage' = Null
                /\ chatMessages' =
                       Append(chatMessages, UserMessage(userText, currentAttachment))
                /\ isChatting' = TRUE
                /\ chatCalls' = Append(chatCalls,
                       [contents |-> BuildContents(chatMessages, userText,
                                                   currentAttachment),
                        log |-> chatMessages,
                        userText |-> userText,
                        attachment |-> currentAttachment,
                        userName |-> user[1].name])
                /\ UNCHANGED authVars
    /\ UNCHANGED << mounted, uncaught, genVars, error, audioVars, storage >>

\* Lines 169-170 and 174-176: generateContent resolved.
SendResolved ==
    /\ \E i \in 1..Len(chatCalls), text \in ResponseTexts :
           /\ chatMessages' = Append(chatMessages, AssistantMessage(text))
           /\ chatCalls' = RemoveAt(chatCalls, i)
    /\ isChatting' = FALSE
    /\ UNCHANGED << mounted, uncaught, genVars, error, authVars, chatInput,
                    attachedImage, audioVars, storage, accepted >>

\* Mutant of SendRejected: the failure goes to the banner, as in the other
\* two workflows, and the log gets no entry.
SendRejected_Banner ==
    /\ \E i \in 1..Len(chatCalls), msg \in ErrorMessages :
           /\ error' = Some(GenerateError(msg))
           /\ chatCalls' = RemoveAt(chatCalls, i)
    /\ isChatting' = FALSE
    /\ UNCHANGED << mounted, uncaught, genVars, authVars, chatInput, attachedImage,
                    chatMessages, audioVars, storage, accepted >>

\* Lines 171-176: generateContent rejected.
SendRejected ==
    /\ \E i \in 1..Len(chatCalls) :
           /\ chatMessages' = Append(chatMessages, ErrorMessage)
           /\ chatCalls' = RemoveAt(chatCalls, i)
    /\ isChatting' = FALSE
    /\ UNCHANGED << mounted, uncaught, genVars, error, authVars, chatInput,
                    attachedImage, audioVars, storage, accepted >>

----------------------------------------------------------------------------
(* AudioWorkflow. *)

\* Lines 228-233: a file was picked in the audio input.
OnAudioFileChange ==
    /\ mounted
    /\ \E f \in AudioFiles : audioFile' = Some(f)
    /\ audioResult' = Null
    /\ UNCHANGED << mounted, uncaught, genVars, error, authVars, chatVars,
                    isAudioProcessing, audioCalls, storage, accepted >>

\* Line 483: the remove button of the staged file, shown while one is staged.
RemoveAudioFile ==
    /\ mounted
    /\ audioFile # Null
    /\ audioFile' = Null
    /\ UNCHANGED << mounted, uncaught, genVars, error, authVars, chatVars,
                    isAudioProcessing, audioResult, audioCalls, storage,
                    accepted >>

\* Line 180: the condition under which handleAudioEnhance returns at once.
EnhanceIgnored(file, busy) == file = Null \/ busy

\* URL.createObjectURL(file): a reference to the file's own bytes.
ObjectURL(file) == [blob |-> file]

\* Mutant of AudioResult: the enhanced reference is to other bytes.
AudioResult_Processed(file, text) ==
    [original |-> ObjectURL(file),
     enhanced |-> ObjectURL([name |-> "enhanced.wav", type |-> file.type]),
     transcription |-> IF text # "" THEN text ELSE AUDIO_PLACEHOLDER]

\* Lines 214-220: the result of a resolved call, from the closure's file.
AudioResult(file, text) ==
    [original |-> ObjectURL(file), enhanced |-> ObjectURL(file),
     transcription |-> IF text # "" THEN text ELSE AUDIO_PLACEHOLDER]

\* Line 222: "Audio processing failed: " + err.message
AudioError(msg) ==
    CASE msg = "" -> "Audio processing failed: undefined"
      [] msg = "quota exceeded" -> "Audio processing failed: quota exceeded"

\* Lines 179-193: handleAudioEnhance up to its first await, the FileReader's
\* promise.
HandleAudioEnhance ==
    /\ mounted
    /\ IF EnhanceIgnored(audioFile, isAudioProcessing)
       THEN UNCHANGED << audioVars, error, authVars, accepted >>
       ELSE IF user = Null
       THEN /\ showAuthModal' = TRUE
            /\ UNCHANGED << audioVars, error, user, accepted >>
       ELSE /\ accepted < MaxOps
            /\ accepted' = accepted + 1
            /\ isAudioProcessing' = TRUE
            /\ error' = Null
            /\ audioCalls' = Append(audioCalls,
                   [file |-> audioFile[1], stage |-> "reading"])
            /\ UNCHANGED << audioFile, audioResult, authVars >>
    /\ UNCHANGED << mounted, uncaught, genVars, chatVars, storage >>

\* Lines 189 and 193-212: the reader's onload resolves the promise and the
\* handler issues generateContent.
AudioReaderLoaded ==
    /\ \E i \in 1..Len(audioCalls) :
           /\ audioCalls[i].stage = "reading"
           /\ audioCalls' = [audioCalls EXCEPT ![i].stage = "calling"]
    /\ UNCHANGED << mounted, uncaught, genVars, error, authVars, chatVars, audioFile,
                    isAudioProcessing, audioResult, storage, accepted >>

\* Lines 188-191: the reader fails; the promise has no reject path and is
\* never settled.
AudioReaderFailed ==
    /\ \E i \in 1..Len(audioCalls) :
           /\ audioCalls[i].stage = "reading"
           /\ audioCalls' = [audioCalls EXCEPT ![i].stage = "stuck"]
    /\ UNCHANGED << mounted, uncaught, genVars, error, authVars, chatVars, audioFile,
                    isAudioProcessing, audioResult, storage, accepted >>

\* Lines 214-220 and 223-225: generateContent resolved.
AudioResolved ==
    /\ \E i \in 1..Len(audioCalls), text \in ResponseTexts :
           /\ audioCalls[i].stage = "calling"
           /\ audioResult' = Some(AudioResult(audioCalls[i].file, text))
           /\ audioCalls' = RemoveAt(audioCalls, i)
    /\ isAudioProcessing' = FALSE
    /\ UNCHANGED << mounted, uncaught, genVars, error, authVars, chatVars, audioFile,
                    storage, accepted >>

\* Lines 221-225: generateContent rejected.
AudioRejected ==
    /\ \E i \in 1..Len(audioCalls), msg \in ErrorMessages :
           /\ audioCalls[i].stage = "calling"
           /\ error' = Some(AudioError(msg))
           /\ audioCalls' = RemoveAt(audioCalls, i)
    /\ isAudioProcessing' = FALSE
    /\ UNCHANGED << mounted, uncaught, genVars, authVars, chatVars, audioFile,
                    audioResult, storage, accepted >>

----------------------------------------------------------------------------
(* Session provider. *)

\* Line 343: the Sign In button, shown while no profile is present.
OpenAuthModal ==
    /\ mounted
    /\ user = Null
    /\ showAuthModal' = TRUE
    /\ UNCHANGED << mounted, uncaught, genVars, error, user, chatVars, audioVars,
                    storage, accepted >>

\* Lines 254 and 256: the backdrop and the close button of the modal.
CloseAuthModal ==
    /\ mounted
    /\ showAuthModal
    /\ showAuthModal' = FALSE
    /\ UNCHANGED << mounted, uncaught, genVars, error, user, chatVars, audioVars,
                    storage, accepted >>

\* Line 237: the profile built from the form.
MockUser(authMode, authData) ==
    [name |-> IF authMode = "signup" THEN authData.name
              ELSE LocalPart(authData.email),
     email |-> authData.email]

\* Lines 235-241: the form of the modal is submitted.
HandleAuthSubmit ==
    /\ mounted
    /\ showAuthModal
    /\ \E authMode \in AuthModes, authData \in AuthInputs :
         LET mockUser == MockUser(authMode, authData) IN
           /\ user' = Some(mockUser)
           /\ storage' = [storage EXCEPT !.user = Some(Stringify(mockUser))]
    /\ showAuthModal' = FALSE
    /\ UNCHANGED << mounted, uncaught, genVars, error, chatVars, audioVars, accepted >>

\* Lines 236-239: setItem throws (the quota is exceeded) after setUser; line
\* 240 is not reached and the error leaves the handler.
HandleAuthSubmitQuota ==
    /\ mounted
    /\ showAuthModal
    /\ \E authMode \in AuthModes, authData \in AuthInputs :
           user' = Some(MockUser(authMode, authData))
    /\ uncaught' = uncaught \cup { "handleAuthSubmit" }
    /\ UNCHANGED << mounted, genVars, error, showAuthModal, chatVars,
                    audioVars, storage, accepted >>

\* Mutant of HandleLogout: the stored session is not removed.
HandleLogout_KeepsStored ==
    /\ mounted
    /\ user # Null
    /\ user' = Null
    /\ chatMessages' =
           << [role |-> "model", text |-> LOGOUT_GREETING, image |-> Null] >>
    /\ UNCHANGED << mounted, uncaught, genVars, error, showAuthModal, chatInput,
                    attachedImage, isChatting, chatCalls, audioVars, storage,
                    accepted >>

\* Mutant of HandleLogout: the gallery is emptied with the session.
HandleLogout_DropsHistory ==
    /\ mounted
    /\ user # Null
    /\ user' = Null
    /\ history' = << >>
    /\ storage' = [storage EXCEPT !.user = Null, !.history = Some(Stringify(<< >>))]
    /\ chatMessages' =
           << [role |-> "model", text |-> LOGOUT_GREETING, image |-> Null] >>
    /\ UNCHANGED << mounted, uncaught, prompt, isGenerating, settings,
                    genCalls, completed, error, showAuthModal, chatInput,
                    attachedImage, isChatting, chatCalls, audioVars, accepted >>

\* Lines 243-247: the log-out button, shown while a profile is present.
HandleLogout ==
    /\ mounted
    /\ user # Null
    /\ user' = Null
    /\ storage' = [storage EXCEPT !.user = Null]
    /\ chatMessages' =
           << [role |-> "model", text |-> LOGOUT_GREETING, image |-> Null] >>
    /\ UNCHANGED << mounted, uncaught, genVars, error, showAuthModal, chatInput,
                    attachedImage, isChatting, chatCalls, audioVars, accepted >>

----------------------------------------------------------------------------

Next ==
    \/ Mount
    \/ SetPrompt
    \/ SetAspectRatio
    \/ HandleGenerate
    \/ GenerateResolved
    \/ GenerateRejected
    \/ SetChatInput
    \/ AttachImage
    \/ RemoveAttachment
    \/ ClearHistory
    \/ HandleSendMessage
    \/ SendResolved
    \/ SendRejected
    \/ OnAudioFileChange
    \/ RemoveAudioFile
    \/ HandleAudioEnhance
    \/ AudioReaderLoaded
    \/ AudioReaderFailed
    \/ AudioResolved
    \/ AudioRejected
    \/ OpenAuthModal
    \/ CloseAuthModal
    \/ HandleAuthSubmit
    \/ HandleLogout

Spec == Init /\ [][Next]_vars

\* The conversation and the session over a stored gallery.
ChatNext ==
    \/ Mount
    \/ SetChatInput
    \/ AttachImage
    \/ RemoveAttachment
    \/ ClearHistory
    \/ HandleSendMessage
    \/ SendResolved
    \/ SendRejected
    \/ OpenAuthModal
    \/ CloseAuthModal
    \/ HandleAuthSubmit
    \/ HandleLogout

ChatSpec == ChatInit /\ [][ChatNext]_vars

\* The store, the generation workflow and the session over page reloads.
StoreNext ==
    \/ Mount
    \/ Reload
    \/ SetPrompt
    \/ SetAspectRatio
    \/ HandleGenerate
    \/ GenerateResolved
    \/ GenerateRejected
    \/ OpenAuthModal
    \/ CloseAuthModal
    \/ HandleAuthSubmit
    \/ HandleLogout

StoreSpec == StoreInit /\ [][StoreNext]_vars

\* The same over a localStorage whose writes can fail.
QuotaNext ==
    \/ Mount
    \/ MountQuota
    \/ Reload
    \/ SetPrompt
    \/ SetAspectRatio
    \/ HandleGenerate
    \/ GenerateResolved
    \/ GenerateResolvedQuota
    \/ GenerateRejected
    \/ OpenAuthModal
    \/ CloseAuthModal
    \/ HandleAuthSubmit
    \/ HandleAuthSubmitQuota
    \/ HandleLogout

QuotaSpec == Init /\ [][QuotaNext]_vars

----------------------------------------------------------------------------
(* Properties. *)

InFlight(calls) == Len(calls) > 0

ValidPrompt == Trim(prompt) # ""
ValidSend   == Trim(chatInput) # "" \/ attachedImage # Null
ValidAudio  == audioFile # Null

\* What a rejected invocation must leave alone.
WorkflowState ==
    << history, chatMessages, audioResult, prompt, chatInput, attachedImage,
       genCalls, chatCalls, audioCalls >>

AtMostOneInFlight ==
    /\ Len(genCalls) <= 1
    /\ Len(chatCalls) <= 1
    /\ Len(audioCalls) <= 1

BusyInvocationIsNoOp ==
    /\ (isGenerating /\ HandleGenerate) => UNCHANGED WorkflowState
    /\ (isChatting /\ HandleSendMessage) => UNCHANGED WorkflowState
    /\ (isAudioProcessing /\ HandleAudioEnhance) => UNCHANGED WorkflowState

\* C1: a workflow invoked while its busy flag is set changes none of
\* HistoryList, ConversationLog, AudioAnalysisResult, the input texts and the
\* PendingAttachment and starts no gateway call; so at most one call of each
\* kind is in flight in every reachable state.
C1_SingleFlight == [] AtMostOneInFlight /\ [][BusyInvocationIsNoOp]_vars

\* A generation whose re-submission is being refused, with a call of another
\* kind in flight at the same time.
C1_Witness ==
    /\ isGenerating /\ ValidPrompt /\ user # Null
    /\ Len(genCalls) = 1
    /\ Len(chatCalls) + Len(audioCalls) = 1

\* C2: the busy flag of a kind is true exactly while an operation of that
\* kind is in flight, so a call that settles, with a result or an error,
\* leaves the flag false and the next invocation is accepted.
C2_BusyNeverLeaks ==
    /\ isGenerating = InFlight(genCalls)
    /\ isChatting = InFlight(chatCalls)
    /\ isAudioProcessing = InFlight(audioCalls)

\* A generation accepted after an earlier one completed.
C2_Witness == Len(completed) = 1 /\ isGenerating /\ Len(genCalls) = 1

RECURSIVE Reverse(_)
Reverse(s) == IF s = << >> THEN << >> ELSE Append(Reverse(Tail(s)), Head(s))

\* C3: from an empty HistoryList, after N successful generation calls the
\* list has length N and is the reverse of the completion order.
C3_ReverseCompletionOrder ==
    mounted => /\ Len(history) = Len(completed)
               /\ history = Reverse(completed)

\* Two completed generations that can be told apart.
C3_Witness == Len(completed) = 2 /\ completed[1] # completed[2]

\* C4: the ids of the Artifacts in HistoryList are pairwise distinct.
C4_DistinctIds ==
    \A i, j \in 1..Len(history) : i # j => history[i].id # history[j].id

GenerateSucceeds == mounted /\ history' # history
GenerateFails    == Len(genCalls') < Len(genCalls) /\ history' = history
GenerateAccepted == Len(genCalls') > Len(genCalls)

\* C5: a successful generation prepends exactly one Artifact with the prompt
\* and aspect ratio in effect when the submit was accepted, clears the
\* prompt and leaves ConversationLog, PendingAttachment and
\* AudioAnalysisResult unchanged.
C5_GenerateSuccess ==
    [][ /\ GenerateAccepted =>
            genCalls' = << [prompt |-> prompt,
                            aspectRatio |-> settings.aspectRatio] >>
        /\ (InFlight(genCalls) /\ InFlight(genCalls')) => genCalls' = genCalls
        /\ GenerateSucceeds =>
            /\ Len(history') = Len(history) + 1
            /\ Tail(history') = history
            /\ Head(history').prompt = genCalls[1].prompt
            /\ Head(history').aspectRatio = genCalls[1].aspectRatio
            /\ prompt' = ""
            /\ UNCHANGED << chatMessages, attachedImage, audioResult >>
      ]_vars

\* A generation completed with a ratio other than the one now selected.
C5_Witness ==
    /\ history # << >> /\ ~isGenerating /\ prompt = ""
    /\ Head(history).aspectRatio # settings.aspectRatio
    /\ Head(history).aspectRatio # "1:1"

\* C6: a failed generation records the error message or the generic
\* fallback, leaves HistoryList and the prompt as they were before the
\* submit, clears the busy flag and makes no second gateway call.
C6_GenerateFailure ==
    [][ /\ GenerateFails =>
            /\ error' # Null
            /\ error'[1] \in (ErrorMessages \ {""}) \cup {GENERATE_FALLBACK}
            /\ ~isGenerating'
            /\ genCalls' = << >>
            /\ UNCHANGED << history, prompt >>
        /\ (isGenerating /\ isGenerating') => UNCHANGED << history, prompt >>
        /\ GenerateAccepted => UNCHANGED << history, prompt >>
      ]_vars

\* A generation failed without a message.
C6_Witness ==
    error = Some(GENERATE_FALLBACK) /\ ~isGenerating /\ ValidPrompt

\* Everything but the sign-in prompt.
AllButAuthModal ==
    << mounted, uncaught, genVars, error, user, chatVars, audioVars, storage, accepted >>

\* C7: without a SessionProfile, a workflow invoked with valid input and an
\* idle guard starts no call, changes nothing and surfaces the sign-in prompt.
C7_NoSession ==
    [][ /\ (user = Null /\ ValidPrompt /\ ~isGenerating /\ HandleGenerate)
             => (showAuthModal' /\ UNCHANGED AllButAuthModal)
        /\ (user = Null /\ ValidSend /\ ~isChatting /\ HandleSendMessage)
             => (showAuthModal' /\ UNCHANGED AllButAuthModal)
        /\ (user = Null /\ ValidAudio /\ ~isAudioProcessing /\ HandleAudioEnhance)
             => (showAuthModal' /\ UNCHANGED AllButAuthModal)
      ]_vars

\* The sign-in prompt is up before an anonymous user with a valid prompt.
C7_Witness ==
    user = Null /\ showAuthModal /\ ValidPrompt /\ ~isGenerating /\ accepted = 0

\* C8: a workflow invoked with an empty or whitespace-only primary input and
\* nothing staged is a no-op in every state.
C8_EmptyInputNoOp ==
    [][ /\ (~ValidPrompt /\ HandleGenerate) => UNCHANGED vars
        /\ (~ValidSend /\ HandleSendMessage) => UNCHANGED vars
        /\ (~ValidAudio /\ HandleAudioEnhance) => UNCHANGED vars
      ]_vars

\* Whitespace-only inputs before a signed-in user with idle guards.
C8_Witness ==
    /\ prompt = "  " /\ chatInput = "  " /\ attachedImage = Null
    /\ audioFile = Null /\ user # Null /\ accepted < MaxOps
    /\ ~isGenerating /\ ~isChatting /\ ~isAudioProcessing

SendAccepted  == Len(chatCalls') > Len(chatCalls)
SendSettled   == Len(chatCalls') < Len(chatCalls)

\* The encoding the request must give a message of the log.
IsInlineBinary(part, url) ==
    /\ part.tag = "inlineData"
    /\ part.mimeType = "image/png"
    /\ Len(url) = 2 => part.data = url[2]
IsText(part, text) == part.tag = "text" /\ part.text = text

EncodesMessage(entry, msg) ==
    /\ entry.role = msg.role
    /\ IF msg.image # Null
       THEN /\ Len(entry.parts) = 2
            /\ IsInlineBinary(entry.parts[1], msg.image[1])
            /\ IsText(entry.parts[2],
                      IF msg.text # "" THEN msg.text ELSE "Analyze this image.")
       ELSE /\ Len(entry.parts) = 1
            /\ IsText(entry.parts[1], msg.text)

EncodesTurn(entry, text, staged) ==
    /\ entry.role = "user"
    /\ IF staged # Null
       THEN /\ Len(entry.parts) = 2
            /\ IsInlineBinary(entry.parts[1], staged[1].url)
            /\ entry.parts[2].tag = "text"
       ELSE /\ Len(entry.parts) = 1
            /\ IsText(entry.parts[1], text)

\* C9: the request of an accepted send over a log of k messages has k+1
\* entries in log order: entry i encodes message i, entry k+1 is the user
\* turn, the staged attachment first and one text part after it.
C9_RequestShape ==
    [][ SendAccepted =>
          LET request == chatCalls'[Len(chatCalls')].contents
              k == Len(chatMessages)
          IN  /\ Len(request) = k + 1
              /\ \A i \in 1..k : EncodesMessage(request[i], chatMessages[i])
              /\ EncodesTurn(request[k + 1], Trim(chatInput), attachedImage)
      ]_vars

\* A pending request over a log with an attachment in it, with another
\* attachment in the turn.
C9_Witness ==
    /\ Len(chatCalls) = 1
    /\ chatCalls[1].attachment # Null
    /\ Len(chatCalls[1].contents) >= 4
    /\ \E i \in 1..Len(chatCalls[1].log) : chatCalls[1].log[i].image # Null

\* The entry a send must leave in the log for the user's turn.
UserEntry(text, staged) ==
    [role |-> "user", text |-> text,
     image |-> IF staged # Null THEN Some(staged[1].url) ELSE Null]
IsAssistantEntry(e) == e.role = "model" /\ e.image = Null

\* C10 as stated: when the call of an accepted send settles, the log is the
\* log before the call plus the user entry and one assistant entry, and no
\* attachment is staged, whatever the user did during the call.
C10_TwoEntriesAnyInterleaving ==
    [][ SendSettled =>
          LET call == chatCalls[1]
          IN  /\ Len(chatMessages') = Len(call.log) + 2
              /\ SubSeq(chatMessages', 1, Len(call.log)) = call.log
              /\ chatMessages'[Len(call.log) + 1] =
                     UserEntry(call.userText, call.attachment)
              /\ IsAssistantEntry(chatMessages'[Len(call.log) + 2])
              /\ attachedImage' = Null
      ]_vars

\* C10 amended, step by step: accepting a send appends the user entry
\* with the attachment reference and unstages the attachment; settling the
\* call, resolved or rejected, appends one assistant entry to the log as it
\* then stands and leaves the staged attachment alone; during the call the
\* log changes only by a clear or a sign-out and the staged attachment only
\* by the user staging or removing one. So the log is the pre-call log plus
\* two entries when nobody cleared it or signed out, and nothing is staged
\* when nobody staged an attachment during the call.
SendAcceptStep ==
    SendAccepted =>
        /\ chatMessages' =
               Append(chatMessages, UserEntry(Trim(chatInput), attachedImage))
        /\ attachedImage' = Null
SendSettleStep ==
    SendSettled =>
        /\ Len(chatMessages') = Len(chatMessages) + 1
        /\ SubSeq(chatMessages', 1, Len(chatMessages)) = chatMessages
        /\ IsAssistantEntry(chatMessages'[Len(chatMessages')])
        /\ attachedImage' = attachedImage
        /\ LET call == chatCalls[1]
               sent == Append(call.log, UserEntry(call.userText, call.attachment))
           IN  chatMessages = sent => Len(chatMessages') = Len(call.log) + 2
SendInFlightStep ==
    (isChatting /\ ~SendSettled) =>
        /\ \/ chatMessages' = chatMessages
           \/ chatMessages' = << >>
           \/ chatMessages' =
                  << [role |-> "model", text |-> LOGOUT_GREETING, image |-> Null] >>
        /\ \/ attachedImage' = attachedImage
           \/ attachedImage' = Null
           \/ \E i \in 1..Len(history) : attachedImage' = Some(history[i])
C10_TwoEntriesUnlessInterleaved ==
    [][ SendAcceptStep /\ SendSettleStep /\ SendInFlightStep ]_vars

\* A send with an attachment settled after the log was cleared and another
\* attachment staged during the call: the log is the assistant entry alone.
C10_Witness ==
    /\ ~isChatting
    /\ chatCalls = << >>
    /\ accepted = 1
    /\ Len(chatMessages) = 1
    /\ chatMessages[1] \in {AssistantMessage("Looks great."), ErrorMessage}
    /\ attachedImage # Null

\* C11: a send whose gateway call fails appends exactly one assistant entry
\* with the fixed error text, leaves lastError as it was and clears the
\* conversation busy flag; a send whose call returns text appends that text,
\* or the fixed fallback when the text is empty.
C11_SendFailure ==
    [][ /\ SendSettled =>
            /\ Len(chatMessages') = Len(chatMessages) + 1
            /\ SubSeq(chatMessages', 1, Len(chatMessages)) = chatMessages
            /\ chatMessages'[Len(chatMessages')].role = "model"
            /\ chatMessages'[Len(chatMessages')].text \in
                   { "I encountered an error analyzing your request. Please try again.",
                     "I'm sorry, I couldn't process that request.",
                     "Looks great." }
            /\ ~isChatting'
            /\ error' = error
        /\ SendRejected =>
            chatMessages'[Len(chatMessages')].text =
                "I encountered an error analyzing your request. Please try again."
        /\ (SendResolved /\ ~SendRejected) =>
            chatMessages'[Len(chatMessages')].text \in
                { "I'm sorry, I couldn't process that request.", "Looks great." }
      ]_vars

\* A send failed while the banner showed the error of a failed generation.
C11_Witness ==
    /\ error # Null
    /\ ~isChatting /\ chatCalls = << >>
    /\ chatMessages # << >>
    /\ chatMessages[Len(chatMessages)].text =
           "I encountered an error analyzing your request. Please try again."

\* C12: whenever the component is mounted, the value under the history key
\* is the text of the whole in-memory list and parses back to that list; so
\* across page reloads the list is, element for element, the Artifacts
\* completed so far, newest first, in front of what the first load installed.
C12_SaveLoadRoundTrip ==
    mounted =>
        /\ storage.history # Null
        /\ storage.history[1] = Stringify(history)
        /\ Parses(storage.history[1])
        /\ Parse(storage.history[1]) = history
        /\ Len(history) >= Len(completed)
        /\ SubSeq(history, 1, Len(completed)) = Reverse(completed)
        /\ SubSeq(history, Len(completed) + 1, Len(history))
               \in { << >>, NotArtifacts }

\* Two Artifacts shown by a page that was loaded after they were stored: only
\* a page load after the sign-out brings the first greeting back.
C12_Witness ==
    /\ mounted
    /\ Len(completed) = 2
    /\ Len(history) >= 2
    /\ history[1] # history[2]
    /\ user = Null
    /\ chatMessages[1].text = GREETING

\* The structure the history key is expected to hold: a list of Artifacts.
IsArtifact(a) == DOMAIN a = { "id", "url", "prompt", "timestamp", "aspectRatio" }
HistoryLoadable(stored) ==
    /\ stored # Null
    /\ Parses(stored[1])
    /\ \A i \in 1..Len(Parse(stored[1])) : IsArtifact(Parse(stored[1])[i])
SessionLoadable(stored) == stored # Null /\ Parses(stored[1])
Mounting == ~mounted /\ mounted'

\* C13: a load over a history value that is absent, does not parse, or
\* parses to something other than a list of Artifacts yields the empty
\* HistoryList; a load over an absent or unparseable session yields no
\* SessionProfile; what one key holds does not change what the other loads.
C13_LoadTolerant ==
    [][ Mounting =>
          /\ ~HistoryLoadable(storage.history) => history' = << >>
          /\ HistoryLoadable(storage.history) =>
                 history' = Parse(storage.history[1])
          /\ ~SessionLoadable(storage.user) => user' = Null
          /\ SessionLoadable(storage.user) =>
                 user' = Some(Parse(storage.user[1]))
      ]_vars

\* C14: a storage write that fails, in the save of the history or of the
\* session, is caught: no error leaves the component's code uncaught, and
\* the component stays up with the Artifact prepended or the profile set
\* and the busy flag cleared.
C14_WriteFailureCaught ==
    /\ uncaught = { }
    /\ completed # << >> => (mounted \/ history = << >>)

\* The lastError of a kind, read off the one banner the component has: the
\* texts the generation workflow and the audio workflow record are disjoint.
GenerationErrors == { "quota exceeded", "Failed to generate image." }
GenerationLastError ==
    IF error # Null /\ error[1] \in GenerationErrors THEN error ELSE Null
AudioLastError ==
    IF error # Null /\ error[1] \notin GenerationErrors THEN error ELSE Null

GenerationStep   == genCalls' # genCalls
ConversationStep == chatCalls' # chatCalls
AudioStep        == audioCalls' # audioCalls

\* The part of C15 about the busy flags.
BusyFlagsIndependent ==
    /\ GenerationStep => UNCHANGED << isChatting, isAudioProcessing >>
    /\ ConversationStep => UNCHANGED << isGenerating, isAudioProcessing >>
    /\ AudioStep => UNCHANGED << isGenerating, isChatting >>

\* C15: an operation of one kind that starts, completes or fails changes
\* neither the busy flag nor the lastError of another kind.
C15_IndependentWorkflowState ==
    [][ /\ BusyFlagsIndependent
        /\ GenerationStep => UNCHANGED AudioLastError
        /\ ConversationStep => UNCHANGED << GenerationLastError, AudioLastError >>
        /\ AudioStep => UNCHANGED GenerationLastError
      ]_vars

AudioSettled == Len(audioCalls') < Len(audioCalls)

\* C16: an enhance that succeeds replaces AudioAnalysisResult with a result
\* whose two references are to the bytes of the file the enhance was started
\* on and whose transcription is the gateway's text or "Processing
\* complete."; an enhance that fails records an error and leaves the result
\* as it was.
C16_EnhanceOutcome ==
    [][ /\ AudioResolved =>
            /\ audioResult' # Null
            /\ audioResult'[1].original.blob = audioCalls[1].file
            /\ audioResult'[1].enhanced.blob = audioCalls[1].file
            /\ audioResult'[1].transcription \in
                   { "Looks great.", "Processing complete." }
            /\ DOMAIN audioResult'[1] = { "original", "enhanced", "transcription" }
        /\ AudioRejected =>
            /\ error' # Null
            /\ audioResult' = audioResult
        /\ AudioSettled => ~isAudioProcessing'
      ]_vars

\* An enhance failed after an earlier one had produced a result, which is
\* still there.
C16_Witness ==
    /\ audioResult # Null
    /\ audioResult[1].transcription = "Processing complete."
    /\ error # Null
    /\ error[1] \notin GenerationErrors
    /\ ~isAudioProcessing /\ audioCalls = << >>
    /\ accepted = 2

IsGreeting(msg) ==
    /\ msg.role = "model"
    /\ msg.text \in
           { "Hello! I am your FlipArt AI Assistant. I can help you craft better prompts or analyze your generated art. How can I assist you today?",
             "Hello! I am your FlipArt Assistant. How can I help you today?" }

\* C17: in the ConversationLog every assistant entry that is not a greeting
\* comes right after a user entry, the one it answers.
C17_ReplyFollowsUserTurn ==
    \A i \in 1..Len(chatMessages) :
        (chatMessages[i].role = "model" /\ ~IsGreeting(chatMessages[i])) =>
            /\ i > 1
            /\ chatMessages[i - 1].role = "user"

\* C18: in every request of the conversation workflow no two consecutive
\* entries have the same role.
C18_RolesAlternate ==
    \A c \in 1..Len(chatCalls) :
        LET request == chatCalls[c].contents
        IN  \A i \in 1..(Len(request) - 1) : request[i].role # request[i + 1].role

LastEntry(log) == log[Len(log)]

\* C19: an accepted send clears the chat input and the staged attachment and
\* appends the user entry in the step that issues the gateway call; no
\* assistant entry is appended until the call settles, and then one is; a
\* send attempted in between is refused and appends nothing.
C19_TwoPhaseSend ==
    [][ /\ SendAccepted =>
            /\ ~isChatting /\ isChatting'
            /\ chatInput' = "" /\ attachedImage' = Null
            /\ Len(chatMessages') = Len(chatMessages) + 1
            /\ LastEntry(chatMessages').role = "user"
            /\ LastEntry(chatMessages').text = Trim(chatInput)
        /\ (isChatting /\ isChatting') =>
            /\ chatCalls' = chatCalls
            /\ \/ chatMessages' = chatMessages
               \/ chatMessages' = << >>
               \/ (Len(chatMessages') = 1 /\ IsGreeting(chatMessages'[1]))
        /\ (isChatting /\ HandleSendMessage) =>
            UNCHANGED << chatMessages, chatCalls, chatInput, attachedImage >>
        /\ (isChatting /\ ~isChatting') =>
            /\ SendSettled
            /\ Len(chatMessages') = Len(chatMessages) + 1
            /\ LastEntry(chatMessages').role = "model"
      ]_vars

\* Between the two phases, with an attachment staged for a second send: the
\* log ends with the user entry.
C19_Witness ==
    /\ isChatting /\ Len(chatCalls) = 1
    /\ user # Null
    /\ attachedImage # Null
    /\ chatMessages # << >>
    /\ LastEntry(chatMessages) =
           UserEntry(chatCalls[1].userText, chatCalls[1].attachment)
    /\ accepted < MaxOps

EncodingFailed ==
    \E i \in 1..Len(audioCalls) : audioCalls[i].stage = "stuck"

\* C20: an enhance whose file could not be read has failed and no longer
\* holds the audio busy flag, so that a later enhance is accepted.
C20_EncodingFailureReleasesGuard ==
    EncodingFailed => ~isAudioProcessing

\* A reference inline bytes can be derived from: a data URL, with a payload
\* after the comma.
Decodable(url) == Len(url) >= 2

\* C21: a send whose attachment reference cannot be decoded fails, and
\* when its call has settled the ConversationLog is what it was before the
\* send was invoked.
C21_UndecodableLeavesLog ==
    [][ (SendSettled /\ chatCalls[1].attachment # Null
                     /\ ~Decodable(chatCalls[1].attachment[1].url)) =>
            chatMessages' = chatCalls[1].log
      ]_vars

\* C22: whenever an AudioAnalysisResult is present, a file is staged and
\* the result was produced from that file.
C22_ResultOfStagedFile ==
    audioResult # Null =>
        /\ audioFile # Null
        /\ audioResult[1].original.blob = audioFile[1]
        /\ audioResult[1].enhanced.blob = audioFile[1]

\* C23: once loaded, HistoryList changes only by one Artifact being put in
\* front of it: every step leaves the list as it is or makes it the old
\* list with one new head, so no Artifact is ever removed, moved or changed.
C23_HistoryOnlyPrepends ==
    [][ (mounted /\ mounted') =>
            \/ history' = history
            \/ /\ Len(history') = Len(history) + 1
               /\ Tail(history') = history
               /\ GenerateResolved
      ]_vars

\* An Artifact still in the gallery after a failed generation, a sign-out
\* and a clear.
C23_Witness ==
    /\ mounted
    /\ Len(history) = 1
    /\ error # Null /\ error[1] \in GenerationErrors
    /\ user = Null
    /\ chatMessages = << >>

AllButLog ==
    << mounted, uncaught, genVars, error, authVars, chatInput, attachedImage,
       isChatting, chatCalls, audioVars, storage, accepted >>

\* C24: clear makes the ConversationLog the empty sequence and changes
\* nothing else, an in-flight send included; sign-out makes the log a single
\* assistant greeting.
C24_ClearResetsToEmpty ==
    [][ /\ ClearHistory =>
            /\ chatMessages' = << >>
            /\ UNCHANGED AllButLog
        /\ HandleLogout =>
            /\ Len(chatMessages') = 1
            /\ IsGreeting(chatMessages'[1])
      ]_vars

\* The log was cleared during a send, with an attachment staged.
C24_Witness ==
    /\ chatMessages = << >>
    /\ isChatting /\ Len(chatCalls) = 1
    /\ attachedImage # Null
    /\ user # Null

SessionStoredExactly ==
    /\ (storage.user # Null) <=> (user # Null)
    /\ user # Null => storage.user[1] = Stringify(user[1])
SessionStep == HandleAuthSubmit \/ HandleLogout
SessionStepFrame == SessionStep => UNCHANGED << history, storage.history >>

\* C25 as stated: once loaded, the stored session value is present exactly
\* when a SessionProfile is in memory, and is its text; sign-in and sign-out
\* change neither HistoryList nor the stored history value.
C25_SessionStoredIffPresent ==
    [] (mounted => SessionStoredExactly) /\ [][SessionStepFrame]_vars

\* C25 amended: once loaded, what a load would read from the stored session
\* value is the SessionProfile in memory (a stored value that does not parse
\* stays in the store, with no profile in memory, until the first sign-in or
\* sign-out); after every sign-in and sign-out the stored value is present
\* exactly when the profile is, and is its text; sign-in and sign-out change
\* neither HistoryList nor the stored history value.
C25_SessionStoredAsLoaded ==
    /\ [] (mounted => LoadUser(storage.user) = user)
    /\ [][ /\ SessionStep => SessionStoredExactly'
           /\ SessionStepFrame ]_vars

\* Loaded over a stored session that does not parse: it is still stored and
\* no profile is in memory.
C25_Witness ==
    /\ mounted
    /\ user = Null
    /\ storage.user # Null
    /\ ~Parses(storage.user[1])

StagedFromHistory ==
    /\ Len(attachedImage) <= 1
    /\ attachedImage # Null =>
           \E i \in 1..Len(history) : history[i] = attachedImage[1]

\* C26: at most one PendingAttachment is staged and it is an element of
\* HistoryList; it is unstaged only by an accepted send or by the remove
\* button, and a send that is refused leaves it staged.
C26_PendingAttachment ==
    /\ [] StagedFromHistory
    /\ [][ /\ (attachedImage # Null /\ attachedImage' = Null) =>
                  (SendAccepted \/ RemoveAttachment)
           /\ (HandleSendMessage /\ ~SendAccepted) =>
                  attachedImage' = attachedImage
         ]_vars

\* An attachment still staged after a send was refused for want of a
\* session and after a newer Artifact went in front of it.
C26_Witness ==
    /\ attachedImage # Null
    /\ Len(history) = 2
    /\ history[2] = attachedImage[1]
    /\ history[1] # history[2]
    /\ user = Null /\ showAuthModal
    /\ ~isChatting

CallsAndFlags ==
    << genCalls, chatCalls, audioCalls, isGenerating, isChatting,
       isAudioProcessing >>

\* C27: a sign-out leaves the calls in flight and their busy flags as they
\* are, and a call that resolves with nobody signed in still has its result
\* applied: the Artifact is prepended and stored, the assistant entry is
\* appended, the AudioAnalysisResult is set, and the busy flag is cleared.
C27_SignOutDoesNotCancel ==
    [][ /\ HandleLogout => UNCHANGED CallsAndFlags
        /\ (user = Null /\ GenerateResolved) =>
              /\ Len(history') = Len(history) + 1
              /\ Tail(history') = history
              /\ Head(history').prompt = genCalls[1].prompt
              /\ storage'.history = Some(Stringify(history'))
              /\ ~isGenerating'
        /\ (user = Null /\ SendResolved) =>
              /\ Len(chatMessages') = Len(chatMessages) + 1
              /\ LastEntry(chatMessages').role = "model"
              /\ ~isChatting'
        /\ (user = Null /\ AudioResolved) =>
              /\ audioResult' # Null
              /\ audioResult'[1].original.blob = audioCalls[1].file
              /\ ~isAudioProcessing'
      ]_vars

\* A generation and a send were in flight at the sign-out and both resolved
\* after it: the reply sits right after the sign-out greeting.
C27_Witness ==
    /\ user = Null
    /\ Len(chatMessages) = 2
    /\ chatMessages[1].text = "Hello! I am your FlipArt Assistant. How can I help you today?"
    /\ chatMessages[2].role = "model"
    /\ ~isChatting /\ ~isGenerating
    /\ Len(history) = 1
    /\ storage.history = Some(Stringify(history))
    /\ prompt = ""

====
